---- MODULE Spec2Model ----
(***************************************************************************)
(* Library catalog service (inviista/GoLangProject2024).                   *)
(*                                                                         *)
(* The store (books, users, permissions, tokens, users_books) is shared;   *)
(* every HTTP request runs in a goroutine of its own and issues its store  *)
(* operations one statement at a time, with no transaction around them.    *)
(* Each store statement is atomic and may fail (deadline elapsed, store    *)
(* unreachable), in which case it changes nothing.                         *)
(*                                                                         *)
(* Spec      : GetBook, CreateBook, DeleteBook, UpdateBook, concurrently.  *)
(* ListSpec  : GetBooks between inserts and deletes, one request at a      *)
(*             time (the listing is a single statement).                   *)
(* AuthSpec  : registerUserHandler and activateUserHandler, concurrently.  *)
(* AbortSpec : AuthSpec with clients that drop the connection.             *)
(* TokenSpec : every handler that issues or resolves a token, one request  *)
(*             at a time, while the clock runs.                            *)
(***************************************************************************)
EXTENDS Integers, Sequences, FiniteSets, Bags, TLC

VARIABLES
    books,        \* books table: id -> row
    nextBookId,   \* books.id sequence
    users,        \* users table: id -> row
    nextUserId,   \* users.id sequence
    permissions,  \* users_permissions: set of <<user id, code>>
    tokens,       \* tokens table: set of rows [hash, user, scope, expiry]
    nextToken,    \* next plaintext the random source hands out
    subs,         \* users_books: set of <<user id, book id>>
    now,          \* wall clock, in days
    req,          \* bag of the requests being served
    issued,       \* history: every token ever issued [plain, user, scope]
    activatedOk,  \* history: users for whom activateUserHandler completed
    reactivated   \* history: tokens that activated again after completion

vars == <<books, nextBookId, users, nextUserId, permissions, tokens,
          nextToken, subs, now, req, issued, activatedOk, reactivated>>

bookVars == <<books, nextBookId>>
authVars == <<users, nextUserId, permissions, tokens, nextToken, subs,
              issued, activatedOk, reactivated>>

----------------------------------------------------------------------------
(* Bounds of the model *)

NumSlots == 2       \* requests served at the same time
MaxBookId == 2      \* inserts into books
MaxUserId == 2      \* inserts into users
MaxTokens == 2      \* tokens the random source hands out
MaxTime == 3        \* days the clock runs
MaxVersion == 3     \* largest version a user row reaches
MaxPage == 2        \* largest page number a client asks for


----------------------------------------------------------------------------
(* Strings: sequences of characters; 0 is the space character. *)

MaxTitleLen == 100
MaxAuthorLen == 100

S_empty == <<>>
S_a == <<1>>
S_ba == <<2, 0, 1>>
S_long == [i \in 1..(MaxTitleLen + 1) |-> 1]

Titles == {S_empty, S_a, S_ba, S_long}
Authors == {S_a, S_long}
Years == {2024}
Queries == {S_empty, S_a}

Min2(a, b) == IF a < b THEN a ELSE b

\* Byte-wise comparison of two strings (ORDER BY on a text column).
StrLess(s, t) ==
    LET diff == {k \in 1..Min2(Len(s), Len(t)) : s[k] # t[k]}
    IN IF diff = {} THEN Len(s) < Len(t)
       ELSE LET i == CHOOSE k \in diff : \A j \in diff : k <= j
            IN s[i] < t[i]

\* The words of a string: its maximal runs of non-space characters.
WordEnd(s, i) ==
    CHOOSE j \in i..Len(s) :
        /\ (j = Len(s) \/ s[j + 1] = 0)
        /\ \A k \in i..j : s[k] # 0

Words(s) ==
    {SubSeq(s, i, WordEnd(s, i)) :
        i \in {k \in 1..Len(s) : s[k] # 0 /\ (k = 1 \/ s[k - 1] = 0)}}

\* to_tsvector('simple', field) @@ plainto_tsquery('simple', q) OR q = ''
TextMatches(field, q) ==
    \/ q = S_empty
    \/ (Words(q) # {} /\ Words(q) \subseteq Words(field))

----------------------------------------------------------------------------
(* Errors and responses *)

NoErr == "nil"
ErrRecordNotFound == "ErrRecordNotFound"
ErrEditConflict == "ErrEditConflict"
ErrDuplicateEmail == "ErrDuplicateEmail"
ErrNoRows == "sql.ErrNoRows"
ErrDeadline == "context.DeadlineExceeded"
ErrQuery == "pq: OFFSET must not be negative"
ErrPassword == "bcrypt: password length exceeds 72 bytes"

ScopeActivation == "activation"
ScopeAuthentication == "authentication"

NoBook == [id |-> 0, title |-> S_empty, author |-> S_empty, year |-> 0,
           createdAt |-> 0, updatedAt |-> 0]
NoUser == [id |-> 0, email |-> "", activated |-> FALSE, version |-> 0]
NoMeta == [currentPage |-> 0, pageSize |-> 0, firstPage |-> 0,
           lastPage |-> 0, totalRecords |-> 0]
NoFilters == [title |-> S_empty, author |-> S_empty, page |-> 0,
              pageSize |-> 0, sort |-> <<>>]

\* a request as it arrives
NewReq == [h |-> "", pc |-> "", id |-> 0, tok |-> 0,
            user |-> NoUser, book |-> NoBook, read |-> NoBook,
            filters |-> NoFilters, rows |-> <<>>, meta |-> NoMeta,
            matched |-> 0, queried |-> FALSE, fresh |-> FALSE,
            orderBy |-> <<>>,
            err |-> NoErr, resp |-> "", fault |-> FALSE, reason |-> "",
            raced |-> FALSE, aborted |-> FALSE, wrote |-> 0]

Requests == BagToSet(req)

\* fewer than n requests are being served
CanStart(n) == BagCardinality(req) < n

\* req with a new request, and with request r replaced
Start(new) == req (+) SetToBag({new})
Put(r, new) == (req (-) SetToBag({r})) (+) SetToBag({new})

----------------------------------------------------------------------------
(* models.Book and BookModel *)

MaxPageSize == 100

ValidateBook(book) ==
    /\ book.title # S_empty
    /\ Len(book.title) <= MaxTitleLen
    /\ Len(book.author) <= MaxAuthorLen

\* BookModel.Get: every Scan error, whatever its cause, is returned as
\* ErrRecordNotFound.
BooksGet(id, fault) ==
    IF id < 1 THEN [book |-> NoBook, err |-> ErrRecordNotFound]
    ELSE IF fault \/ id \notin DOMAIN books
         THEN [book |-> NoBook, err |-> ErrRecordNotFound]
         ELSE [book |-> books[id], err |-> NoErr]

\* BookModel.Insert: INSERT ... RETURNING id, created_at, updated_at
BooksInsert(book, fault) ==
    IF fault THEN [book |-> book, err |-> ErrDeadline, table |-> books]
    ELSE LET row == [book EXCEPT !.id = nextBookId, !.createdAt = now,
                                 !.updatedAt = now]
         IN [book |-> row, err |-> NoErr,
             table |-> [i \in DOMAIN books \cup {nextBookId} |->
                          IF i = nextBookId THEN row ELSE books[i]]]

\* BookModel.Delete: DELETE FROM books WHERE id = $1
BooksDelete(id, fault) ==
    IF id < 1 THEN [err |-> ErrRecordNotFound, table |-> books]
    ELSE IF fault THEN [err |-> ErrDeadline, table |-> books]
    ELSE [err |-> NoErr,
          table |-> [i \in DOMAIN books \ {id} |-> books[i]]]

\* BookModel.Update: UPDATE books SET ... WHERE id = $4 RETURNING updated_at
BooksUpdate(book, fault) ==
    IF fault THEN [book |-> book, err |-> ErrDeadline, table |-> books]
    ELSE IF book.id \notin DOMAIN books
         THEN [book |-> book, err |-> ErrNoRows, table |-> books]
         ELSE LET row == [books[book.id] EXCEPT !.title = book.title,
                              !.author = book.author, !.year = book.year,
                              !.updatedAt = now]
              IN [book |-> [book EXCEPT !.updatedAt = now], err |-> NoErr,
                  table |-> [books EXCEPT ![book.id] = row]]

----------------------------------------------------------------------------
(* models.Filters: sort values are strings of characters *)

C_id == <<"i", "d">>
C_title == <<"t", "i", "t", "l", "e">>
C_author == <<"a", "u", "t", "h", "o", "r">>
C_year == <<"p", "u", "b", "l", "i", "s", "h", "e", "d", "y", "e", "a", "r">>
C_price == <<"p", "r", "i", "c", "e">>
C_ID == <<"I", "D">>
Desc(c) == <<"-">> \o c

\* GetBooks: input.Filters.SortSafelist
SortSafelist == {C_id, C_title, C_author, C_year,
                 Desc(C_id), Desc(C_title), Desc(C_author), Desc(C_year)}

\* Filters.sortColumn: the safelisted value without its "-" prefix
sortColumn(f) ==
    IF f.sort \in SortSafelist
    THEN (IF f.sort[1] = "-" THEN Tail(f.sort) ELSE f.sort)
    ELSE <<"panic">>

\* Filters.sortDirection
sortDirection(f) ==
    IF Len(f.sort) > 0 /\ f.sort[1] = "-" THEN "DESC" ELSE "ASC"

limit(f) == f.pageSize
offset(f) == (f.page - 1) * f.pageSize

\* ValidateFilters: page, page_size and sort checks
ValidateFilters(f) ==
    /\ f.page >= 1
    /\ f.pageSize >= 1
    /\ f.pageSize <= MaxPageSize
    /\ f.sort \in SortSafelist

\* calculateMetadata
calculateMetadata(totalRecords, page, pageSize) ==
    IF totalRecords = 0 THEN NoMeta
    ELSE [currentPage |-> page, pageSize |-> pageSize, firstPage |-> 1,
          lastPage |-> (totalRecords + pageSize - 1) \div pageSize,
          totalRecords |-> totalRecords]

----------------------------------------------------------------------------
(* BookModel.GetAll *)

KeyLess(a, b, col) ==
    CASE col = C_id -> a.id < b.id
      [] col = C_title -> StrLess(a.title, b.title)
      [] col = C_author -> StrLess(a.author, b.author)
      [] col = C_year -> a.year < b.year
      [] OTHER -> FALSE

\* ORDER BY <col> <dir> alone, without the id column
OrderByPrecedes_NoTiebreak(a, b, col, dir) ==
    IF dir = "ASC" THEN ~KeyLess(b, a, col) ELSE ~KeyLess(a, b, col)

\* ORDER BY <col> <dir>, id ASC: may row a come before row b
OrderByPrecedes(a, b, col, dir) ==
    LET first == IF dir = "ASC" THEN KeyLess(a, b, col) ELSE KeyLess(b, a, col)
        last == IF dir = "ASC" THEN KeyLess(b, a, col) ELSE KeyLess(a, b, col)
    IN first \/ (~last /\ a.id <= b.id)

RECURSIVE Perms(_)
Perms(S) ==
    IF S = {} THEN {<<>>}
    ELSE UNION {{<<x>> \o p : p \in Perms(S \ {x})} : x \in S}

\* WHERE clause of GetAll
MatchingIds(title, author) ==
    {i \in DOMAIN books : /\ TextMatches(books[i].title, title)
                          /\ TextMatches(books[i].author, author)}

\* every row order the store may return for the ORDER BY clause
OrderedResults(title, author, col, dir) ==
    {s \in Perms(MatchingIds(title, author)) :
        \A i \in 1..Len(s) : \A j \in 1..Len(s) :
            i < j => OrderByPrecedes(books[s[i]], books[s[j]], col, dir)}

\* LIMIT $3 OFFSET $4
Window(s, lim, off) == SubSeq(s, off + 1, Min2(off + lim, Len(s)))

\* GetAll with the row order ord: count(*) OVER() is scanned from each
\* returned row, so totalRecords stays 0 when the window is empty.  The
\* store refuses a negative LIMIT or OFFSET and QueryContext returns its
\* error.
GetAll(ord, f, fault) ==
    IF fault THEN [rows |-> <<>>, meta |-> NoMeta, err |-> ErrDeadline]
    ELSE IF limit(f) < 0 \/ offset(f) < 0
    THEN [rows |-> <<>>, meta |-> NoMeta, err |-> ErrQuery]
    ELSE LET page == Window(ord, limit(f), offset(f))
             totalRecords == IF Len(page) = 0 THEN 0 ELSE Len(ord)
         IN [rows |-> page,
             meta |-> calculateMetadata(totalRecords, f.page, f.pageSize),
             err |-> NoErr]

----------------------------------------------------------------------------
(* Book handlers *)

NIL == <<-1>>       \* an absent (nil) field of the UpdateBook input

IdInputs == 0..MaxBookId
Sorts == {C_id, Desc(C_title), C_year, C_price, C_ID}
Pages == 0..MaxPage
PageSizes == {1, 2, MaxPageSize + 1}
Predicates == {<<S_empty, S_empty>>, <<S_a, S_empty>>, <<S_empty, S_a>>}

\* the listing requests clients send: every sort, page and page size with
\* the empty predicates, and the text predicates with the default sort
FilterInputs ==
    {f \in [title : Queries, author : Queries, page : Pages,
            pageSize : PageSizes, sort : Sorts] :
        /\ <<f.title, f.author>> \in Predicates
        /\ (<<f.title, f.author>> # <<S_empty, S_empty>>
              => f.sort = C_id /\ f.pageSize = 2)}

\* switch on the error of Books.Get in GetBook, DeleteBook, UpdateBook and
\* SubcribeAtBook
GetErrResponse(err) ==
    IF err = ErrRecordNotFound THEN "notFound" ELSE "serverError"

\* a write to books makes every listing held by a request stale
Stale(q) == [q EXCEPT !.fresh = FALSE]

\* a committed update of book id: a request that has read the row and has
\* not written it yet now holds an outdated copy
Raced(q, id) ==
    IF q.h = "UpdateBook" /\ q.pc = "update" /\ q.id = id
    THEN [q EXCEPT !.raced = TRUE]
    ELSE Stale(q)

\* a committed write to books by a new request, by request r, and an
\* update of book r.id by request r: what the other requests hold is
\* marked
StartStale(new) == BagOfAll(Stale, req) (+) SetToBag({new})
PutStale(r, new) ==
    BagOfAll(Stale, req (-) SetToBag({r})) (+) SetToBag({new})
PutRaced(r, new) ==
    BagOfAll(LAMBDA q : Raced(q, r.id), req (-) SetToBag({r}))
        (+) SetToBag({new})

\* GetBooks without the return after failedValidationResponse
GetBooksProceeds_Always(f, intsOk) == TRUE

\* GetBooks: proceed to the query only when the validator is valid

GetBooksProceeds(f, intsOk) == intsOk /\ ValidateFilters(f)

GetBooks(n) ==
    /\ CanStart(n)
    /\ \E f \in FilterInputs, intsOk \in BOOLEAN, fault \in BOOLEAN :
        LET q == [NewReq EXCEPT !.h = "GetBooks", !.pc = "done",
                                 !.filters = f]
        IN IF ~GetBooksProceeds(f, intsOk)
           THEN /\ ~fault
                /\ req' = Start([q EXCEPT !.filters = [NoFilters EXCEPT
                                                       !.sort = f.sort],
                                        !.resp = "failedValidation"])
           ELSE \E ord \in OrderedResults(f.title, f.author, sortColumn(f),
                                          sortDirection(f)) :
                  LET g == GetAll(ord, f, fault)
                  IN req' = Start([q EXCEPT !.queried = TRUE,
                                 !.orderBy = <<sortColumn(f), sortDirection(f)>>,
                                 !.fault = fault,
                                 !.fresh = ~fault,
                                 !.matched = Len(ord),
                                 !.rows = g.rows,
                                 !.meta = g.meta,
                                 !.err = g.err,
                                 !.resp = IF g.err # NoErr THEN "serverError"
                                          ELSE "ok"])
    /\ UNCHANGED <<bookVars, authVars, now>>

GetBook(n) ==
    /\ CanStart(n)
    /\ \E id \in IdInputs, fault \in BOOLEAN :
        LET g == BooksGet(id, fault)
            q == [NewReq EXCEPT !.h = "GetBook", !.pc = "done", !.id = id]
        IN IF id < 1
           THEN /\ ~fault
                /\ req' = Start([q EXCEPT !.resp = "notFound"])
           ELSE req' = Start([q EXCEPT !.fault = fault, !.err = g.err,
                             !.resp = IF g.err # NoErr
                                      THEN GetErrResponse(g.err) ELSE "ok"])
    /\ UNCHANGED <<bookVars, authVars, now>>

CreateBook(n) ==
    /\ CanStart(n)
    /\ \E jsonOk \in BOOLEAN, t \in Titles, a \in Authors, y \in Years,
          fault \in BOOLEAN :
        LET book == [NoBook EXCEPT !.title = t, !.author = a, !.year = y]
            g == BooksInsert(book, fault)
            q == [NewReq EXCEPT !.h = "CreateBook", !.pc = "done"]
        IN IF ~jsonOk
           THEN /\ ~fault
                /\ t = S_empty /\ a = S_a
                /\ req' = Start([q EXCEPT !.resp = "badRequest"])
                /\ UNCHANGED bookVars
           ELSE /\ nextBookId <= MaxBookId
                /\ books' = g.table
                /\ nextBookId' = IF g.err = NoErr THEN nextBookId + 1
                                 ELSE nextBookId
                /\ LET new == [q EXCEPT !.fault = fault, !.err = g.err,
                                  !.id = g.book.id,
                                  !.resp = IF g.err # NoErr
                                           THEN "serverError" ELSE "created"]
                   IN req' = IF g.err = NoErr THEN StartStale(new)
                             ELSE Start(new)
    /\ UNCHANGED <<authVars, now>>

\* the record fetch that opens DeleteBook and UpdateBook
FetchStep(n, h, next) ==
    /\ CanStart(n)
    /\ \E id \in IdInputs, fault \in BOOLEAN :
        LET g == BooksGet(id, fault)
            q == [NewReq EXCEPT !.h = h, !.id = id]
        IN IF id < 1
           THEN /\ ~fault
                /\ req' = Start([q EXCEPT !.pc = "done", !.resp = "notFound"])
           ELSE IF g.err # NoErr
           THEN req' = Start([q EXCEPT !.pc = "done", !.fault = fault, !.err = g.err,
                             !.resp = GetErrResponse(g.err)])
           ELSE /\ ~fault
                /\ req' = Start(IF h = "UpdateBook"
                             THEN [q EXCEPT !.pc = next, !.book = g.book,
                                            !.read = g.book]
                             ELSE [q EXCEPT !.pc = next])
    /\ UNCHANGED <<bookVars, authVars, now>>

DeleteBookGet(n) == FetchStep(n, "DeleteBook", "delete")

\* users_books.book_id REFERENCES books ON DELETE CASCADE: the rows of
\* users_books that go with the row id of books
CascadeBook(id) == {s \in subs : s[2] # id}

\* DeleteBook: the error of Books.Delete is dropped
DeleteBookDelete(r) ==
    /\ r.h = "DeleteBook" /\ r.pc = "delete"
    /\ \E fault \in BOOLEAN :
        LET g == BooksDelete(r.id, fault)
        IN /\ books' = g.table
           /\ subs' = IF g.table # books THEN CascadeBook(r.id) ELSE subs
           /\ LET new == [r EXCEPT !.pc = "done", !.fault = fault,
                                  !.resp = "ok"]
              IN req' = IF g.table # books THEN PutStale(r, new)
                        ELSE Put(r, new)
    /\ UNCHANGED <<nextBookId, users, nextUserId, permissions, tokens,
                   nextToken, issued, activatedOk, reactivated, now>>

UpdateBookGet(n) == FetchStep(n, "UpdateBook", "update")

UpdateBookUpdate(r) ==
    /\ r.h = "UpdateBook" /\ r.pc = "update"
    /\ \E jsonOk \in BOOLEAN, t \in Titles \cup {NIL}, a \in Authors \cup {NIL},
          y \in Years \cup {-1}, fault \in BOOLEAN :
        LET b0 == r.book
            b1 == [b0 EXCEPT !.title = IF t # NIL THEN t ELSE @,
                             !.author = IF a # NIL THEN a ELSE @,
                             !.year = IF y # -1 THEN y ELSE @]
            g == BooksUpdate(b1, fault)
        IN IF ~jsonOk
           THEN /\ ~fault /\ t = NIL /\ a = NIL /\ y = -1
                /\ req' = Put(r, [r EXCEPT !.pc = "done", !.resp = "badRequest"])
                /\ UNCHANGED books
           ELSE IF ~ValidateBook(b1)
           THEN /\ ~fault
                /\ req' = Put(r, [r EXCEPT !.pc = "done", !.book = b1,
                                       !.resp = "failedValidation"])
                /\ UNCHANGED books
           ELSE /\ books' = g.table
                /\ LET new == [r EXCEPT !.pc = "done", !.book = g.book,
                                  !.fault = fault, !.err = g.err,
                                  !.resp = IF g.err # NoErr
                                           THEN "serverError" ELSE "ok"]
                   IN req' = IF g.err = NoErr THEN PutRaced(r, new)
                             ELSE Put(r, new)
    /\ UNCHANGED <<nextBookId, authVars, now>>

\* the response has been written; the request is over
Finish(r) ==
    /\ r.pc = "done"
    /\ req' = req (-) SetToBag({r})
    /\ UNCHANGED <<bookVars, authVars, now>>

----------------------------------------------------------------------------
(* models.Tokens, models.Users, models.Permissions *)

ActivationTTL == 3      \* registerUserHandler: 3*24*time.Hour, in days
AuthenticationTTL == 1  \* lifetime of an Authentication token, in days

Emails == {"a@x", "b@x"}
\* the plaintexts clients present; 0 is one the source never hands out
TokenInputs == 0..MaxTokens

\* the lookup hash of a plaintext: SHA-256, a one-way injective digest
Hash(plain) == (plain * 7) % 11

\* Tokens.New: generate a fresh plaintext, store its hash
TokensNew(userId, ttl, scope, fault) ==
    IF fault THEN [plain |-> 0, err |-> ErrDeadline, table |-> tokens]
    ELSE [plain |-> nextToken, err |-> NoErr,
          table |-> tokens \cup {[hash |-> Hash(nextToken), user |-> userId,
                                  scope |-> scope, expiry |-> now + ttl]}]

\* Tokens.DeleteAllForUser: DELETE FROM tokens WHERE scope = $1 AND user_id = $2
DeleteAllForUser(scope, userId, fault) ==
    IF fault THEN [err |-> ErrDeadline, table |-> tokens]
    ELSE [err |-> NoErr,
          table |-> {t \in tokens : ~(t.scope = scope /\ t.user = userId)}]

\* a lookup that matches on hash and scope and reports expiry on its own
GetByToken_TellsExpired(scope, plain, fault) ==
    IF fault THEN [user |-> NoUser, err |-> ErrDeadline]
    ELSE LET m == {t \in tokens : t.hash = Hash(plain) /\ t.scope = scope}
         IN IF m = {} THEN [user |-> NoUser, err |-> ErrRecordNotFound]
            ELSE IF \A t \in m : t.expiry <= now
                 THEN [user |-> NoUser, err |-> "ErrExpiredToken"]
                 ELSE [user |-> users[(CHOOSE t \in m : t.expiry > now).user],
                       err |-> NoErr]

\* Users.GetByToken: the user owning the token with this hash, this scope
\* and an expiry in the future
GetByToken(scope, plain, fault) ==
    IF fault THEN [user |-> NoUser, err |-> ErrDeadline]
    ELSE LET m == {t \in tokens : /\ t.hash = Hash(plain)
                                  /\ t.scope = scope
                                  /\ t.expiry > now}
         IN IF m = {} THEN [user |-> NoUser, err |-> ErrRecordNotFound]
            ELSE [user |-> users[(CHOOSE t \in m : TRUE).user], err |-> NoErr]

\* why a presented token does not resolve under a scope
FailReason(scope, plain) ==
    LET m == {t \in tokens : t.hash = Hash(plain)}
    IN IF m = {} THEN "unknownHash"
       ELSE IF \A t \in m : t.scope # scope THEN "wrongScope"
       ELSE "expired"

\* Users.Insert: email is UNIQUE, version defaults to 1
UsersInsert(email, fault) ==
    IF fault THEN [user |-> NoUser, err |-> ErrDeadline, table |-> users]
    ELSE IF \E i \in DOMAIN users : users[i].email = email
    THEN [user |-> NoUser, err |-> ErrDuplicateEmail, table |-> users]
    ELSE LET row == [id |-> nextUserId, email |-> email,
                     activated |-> FALSE, version |-> 1]
         IN [user |-> row, err |-> NoErr,
             table |-> [i \in DOMAIN users \cup {nextUserId} |->
                          IF i = nextUserId THEN row ELSE users[i]]]

\* Users.Update: UPDATE users SET ..., version = version + 1
\*               WHERE id = $ AND version = $
UsersUpdate(user, fault) ==
    IF fault THEN [user |-> user, err |-> ErrDeadline, table |-> users]
    ELSE IF user.id \notin DOMAIN users \/ users[user.id].version # user.version
    THEN [user |-> user, err |-> ErrEditConflict, table |-> users]
    ELSE LET row == [user EXCEPT !.version = user.version + 1]
         IN [user |-> row, err |-> NoErr,
             table |-> [users EXCEPT ![user.id] = row]]

----------------------------------------------------------------------------
(* User and token handlers *)

Running(r) == r.pc # "done"

\* the response is written and the handler's locals are gone
Done(q, resp) ==
    [q EXCEPT !.pc = "done", !.resp = resp, !.user = NoUser, !.tok = 0,
              !.id = 0]

\* registerUserHandler: readJSON, Password.Set, ValidateUser, Users.Insert
registerUserInsert(n) ==
    /\ CanStart(n)
    /\ \E jsonOk \in BOOLEAN, passwordOk \in BOOLEAN, valid \in BOOLEAN,
          email \in Emails, fault \in BOOLEAN :
        LET g == UsersInsert(email, fault)
            q == [NewReq EXCEPT !.h = "registerUser"]
        IN IF ~jsonOk
           THEN /\ ~fault /\ ~passwordOk /\ ~valid /\ email = "a@x"
                /\ req' = Start(Done(q, "badRequest"))
                /\ UNCHANGED <<users, nextUserId>>
           ELSE IF ~passwordOk
           THEN /\ ~fault /\ ~valid /\ email = "a@x"
                /\ req' = Start([Done(q, "serverError")
                                   EXCEPT !.err = ErrPassword])
                /\ UNCHANGED <<users, nextUserId>>
           ELSE IF ~valid
           THEN /\ ~fault /\ email = "a@x"
                /\ req' = Start(Done(q, "failedValidation"))
                /\ UNCHANGED <<users, nextUserId>>
           ELSE IF g.err # NoErr
           THEN /\ req' = Start([Done(q, IF g.err = ErrDuplicateEmail
                             THEN "failedValidation" ELSE "serverError")
                       EXCEPT !.err = g.err, !.fault = fault])
                /\ UNCHANGED <<users, nextUserId>>
           ELSE /\ nextUserId <= MaxUserId
                /\ users' = g.table
                /\ nextUserId' = nextUserId + 1
                /\ req' = Start([q EXCEPT !.pc = "permission", !.user = g.user,
                                       !.wrote = 1])
    /\ UNCHANGED <<bookVars, permissions, tokens, nextToken, subs, issued,
                   activatedOk, reactivated, now>>

\* registerUserHandler: Permissions.AddForUser(user.ID, "books:read")
registerUserPermission(r) ==
    /\ r.h = "registerUser" /\ r.pc = "permission"
    /\ \E fault \in BOOLEAN :
        IF fault
        THEN /\ req' = Put(r, [Done(r, "serverError") EXCEPT !.err = ErrDeadline,
                                                 !.fault = TRUE])
             /\ UNCHANGED permissions
        ELSE /\ permissions' = permissions \cup {<<r.user.id, "books:read">>}
             /\ req' = Put(r, [r EXCEPT !.pc = "token", !.wrote = r.wrote + 1])
    /\ UNCHANGED <<bookVars, users, nextUserId, tokens, nextToken, subs,
                   issued, activatedOk, reactivated, now>>

\* the scope registerUserHandler issues its token with
RegisterScope == ScopeActivation

\* registerUserHandler: Tokens.New(user.ID, 3 days, ScopeActivation)
registerUserToken(r) ==
    /\ r.h = "registerUser" /\ r.pc = "token"
    /\ \E fault \in BOOLEAN :
        LET g == TokensNew(r.user.id, ActivationTTL, RegisterScope, fault)
        IN IF g.err # NoErr
           THEN /\ req' = Put(r, [Done(r, "serverError") EXCEPT !.err = g.err,
                                                    !.fault = TRUE])
                /\ UNCHANGED <<tokens, nextToken, issued>>
           ELSE /\ nextToken <= MaxTokens
                /\ tokens' = g.table
                /\ nextToken' = nextToken + 1
                /\ issued' = issued \cup {[plain |-> g.plain,
                                           user |-> r.user.id,
                                           scope |-> RegisterScope]}
                /\ req' = Put(r, [Done(r, "created") EXCEPT !.wrote = r.wrote + 1])
    /\ UNCHANGED <<bookVars, users, nextUserId, permissions, subs,
                   activatedOk, reactivated, now>>

\* login: an Authentication token is issued to an existing user
createAuthenticationToken(n) ==
    /\ CanStart(n)
    /\ \E u \in DOMAIN users, fault \in BOOLEAN :
        LET g == TokensNew(u, AuthenticationTTL, ScopeAuthentication, fault)
            q == [NewReq EXCEPT !.h = "login", !.user = users[u]]
        IN IF g.err # NoErr
           THEN /\ req' = Start([Done(q, "serverError") EXCEPT !.err = g.err,
                                                    !.fault = TRUE])
                /\ UNCHANGED <<tokens, nextToken, issued>>
           ELSE /\ nextToken <= MaxTokens
                /\ tokens' = g.table
                /\ nextToken' = nextToken + 1
                /\ issued' = issued \cup {[plain |-> g.plain, user |-> u,
                                           scope |-> ScopeAuthentication]}
                /\ req' = Start([Done(q, "created") EXCEPT !.wrote = 1])
    /\ UNCHANGED <<bookVars, users, nextUserId, permissions, subs,
                   activatedOk, reactivated, now>>

\* the scope activateUserHandler resolves the token under
ActivateScope == ScopeActivation

\* activateUserHandler: switch on the error of Users.GetByToken
ActivateErrResponse(err) ==
    IF err = ErrRecordNotFound THEN "failedValidation" ELSE "serverError"

\* activateUserHandler: readJSON, ValidateTokenPlaintext, Users.GetByToken
activateUserResolve(n) ==
    /\ CanStart(n)
    /\ \E jsonOk \in BOOLEAN, wellFormed \in BOOLEAN, tok \in TokenInputs,
          fault \in BOOLEAN :
        LET g == GetByToken(ActivateScope, tok, fault)
            q == [NewReq EXCEPT !.h = "activateUser"]
        IN IF ~jsonOk
           THEN /\ ~fault /\ ~wellFormed /\ tok = 0
                /\ req' = Start(Done(q, "badRequest"))
           ELSE IF ~wellFormed
           THEN /\ ~fault /\ tok = 0
                /\ req' = Start(Done(q, "failedValidation"))
           ELSE IF g.err # NoErr
           THEN req' = Start([Done(q, ActivateErrResponse(g.err))
                      EXCEPT !.tok = tok, !.err = g.err, !.fault = fault,
                             !.reason = IF fault THEN ""
                                        ELSE FailReason(ActivateScope, tok)])
           ELSE req' = Start([q EXCEPT !.pc = "update", !.tok = tok, !.user = g.user])
    /\ UNCHANGED <<bookVars, authVars, now>>

\* activateUserHandler: user.Activated = true; Users.Update(user)
activateUserUpdate(r) ==
    /\ r.h = "activateUser" /\ r.pc = "update"
    /\ \E fault \in BOOLEAN :
        LET g == UsersUpdate([r.user EXCEPT !.activated = TRUE], fault)
        IN IF g.err # NoErr
           THEN /\ req' = Put(r, [Done(r, IF g.err = ErrEditConflict THEN "editConflict"
                              ELSE "serverError")
                        EXCEPT !.err = g.err, !.fault = fault])
                /\ UNCHANGED <<users, reactivated>>
           ELSE /\ g.user.version <= MaxVersion
                /\ users' = g.table
                /\ reactivated' = IF r.user.id \in activatedOk
                                  THEN reactivated \cup {r.tok}
                                  ELSE reactivated
                /\ req' = Put(r, [r EXCEPT !.pc = "delete", !.user = g.user,
                                       !.wrote = 1])
    /\ UNCHANGED <<bookVars, nextUserId, permissions, tokens, nextToken,
                   subs, issued, activatedOk, now>>

\* the other scope
ActivateDeleteScope_Other == ScopeAuthentication

\* the scope activateUserHandler deletes the user's tokens of
ActivateDeleteScope == ScopeActivation

\* activateUserHandler: Tokens.DeleteAllForUser(ScopeActivation, user.ID)
activateUserDelete(r) ==
    /\ r.h = "activateUser" /\ r.pc = "delete"
    /\ \E fault \in BOOLEAN :
        LET g == DeleteAllForUser(ActivateDeleteScope, r.user.id, fault)
        IN IF g.err # NoErr
           THEN /\ req' = Put(r, [Done(r, "serverError") EXCEPT !.err = g.err,
                                                    !.fault = TRUE])
                /\ UNCHANGED <<tokens, activatedOk>>
           ELSE /\ tokens' = g.table
                /\ activatedOk' = activatedOk \cup {r.user.id}
                /\ req' = Put(r, [Done(r, "ok") EXCEPT !.wrote = r.wrote + 1])
    /\ UNCHANGED <<bookVars, users, nextUserId, permissions, nextToken,
                   subs, issued, reactivated, now>>

\* the other scope
ProtectedScope_Other == ScopeActivation

\* the scope SubcribeAtBook and GetFavoriteBooks resolve the token under
ProtectedScope == ScopeAuthentication

\* SubcribeAtBook, GetFavoriteBooks: switch on the error of Users.GetByToken
AuthErrResponse(err) ==
    IF err = ErrRecordNotFound THEN "invalidAuthenticationToken"
    ELSE "serverError"

\* GetToken, then Users.GetByToken(ScopeAuthentication, token)
Authenticate(n, h, next) ==
    /\ CanStart(n)
    /\ \E hasToken \in BOOLEAN, tok \in TokenInputs, fault \in BOOLEAN :
        LET g == GetByToken(ProtectedScope, tok, fault)
            q == [NewReq EXCEPT !.h = h]
        IN IF ~hasToken
           THEN /\ ~fault /\ tok = 0
                /\ req' = Start(Done(q, "invalidCredentials"))
           ELSE IF g.err # NoErr
           THEN req' = Start([Done(q, AuthErrResponse(g.err))
                      EXCEPT !.tok = tok, !.err = g.err, !.fault = fault,
                             !.reason = IF fault THEN ""
                                        ELSE FailReason(ProtectedScope, tok)])
           ELSE req' = Start([q EXCEPT !.pc = next, !.tok = tok, !.user = g.user])
    /\ UNCHANGED <<bookVars, authVars, now>>

SubcribeAtBookAuth(n) == Authenticate(n, "SubcribeAtBook", "get")

\* SubcribeAtBook: readIDParam, Books.Get
SubcribeAtBookGet(r) ==
    /\ r.h = "SubcribeAtBook" /\ r.pc = "get"
    /\ \E id \in IdInputs, fault \in BOOLEAN :
        LET g == BooksGet(id, fault)
        IN IF id < 1
           THEN /\ ~fault
                /\ req' = Put(r, Done(r, "notFound"))
           ELSE IF g.err # NoErr
           THEN req' = Put(r, [Done(r, GetErrResponse(g.err))
                      EXCEPT !.err = g.err, !.fault = fault])
           ELSE /\ ~fault
                /\ req' = Put(r, [r EXCEPT !.pc = "subscribe", !.id = id])
    /\ UNCHANGED <<bookVars, authVars, now>>

\* SubcribeAtBook: Users.Subcribe(book.Id, user.ID)
SubcribeAtBookInsert(r) ==
    /\ r.h = "SubcribeAtBook" /\ r.pc = "subscribe"
    /\ \E fault \in BOOLEAN :
        IF fault
        THEN /\ req' = Put(r, [Done(r, "serverError") EXCEPT !.err = ErrDeadline,
                                                 !.fault = TRUE])
             /\ UNCHANGED subs
        ELSE /\ subs' = subs \cup {<<r.user.id, r.id>>}
             /\ req' = Put(r, [Done(r, "created") EXCEPT !.wrote = 1])
    /\ UNCHANGED <<bookVars, users, nextUserId, permissions, tokens,
                   nextToken, issued, activatedOk, reactivated, now>>

GetFavoriteBooksAuth(n) == Authenticate(n, "GetFavoriteBooks", "favorites")

\* Users.GetFavorites: the handler tells three outcomes apart
GetFavoritesErrs == {NoErr, ErrRecordNotFound, ErrDeadline}

\* GetFavoriteBooks: Users.GetFavorites(user.ID) and the switch on its error
GetFavoriteBooksGet(r) ==
    /\ r.h = "GetFavoriteBooks" /\ r.pc = "favorites"
    /\ \E err \in GetFavoritesErrs :
        req' = Put(r, IF err = NoErr THEN Done(r, "ok")
                      ELSE [Done(r, GetErrResponse(err))
                              EXCEPT !.err = err,
                                     !.fault = (err = ErrDeadline)])
    /\ UNCHANGED <<bookVars, authVars, now>>

\* the client drops the connection while the handler is running; the
\* handler's store calls take no request context and go on
Abort(r) ==
    /\ Running(r) /\ ~r.aborted
    /\ req' = Put(r, [r EXCEPT !.aborted = TRUE])
    /\ UNCHANGED <<bookVars, authVars, now>>

\* a day passes
Tick ==
    /\ now < MaxTime
    /\ now' = now + 1
    /\ UNCHANGED <<bookVars, authVars, req>>

----------------------------------------------------------------------------

Init ==
    /\ books = << >>
    /\ nextBookId = 1
    /\ users = << >>
    /\ nextUserId = 1
    /\ permissions = {}
    /\ tokens = {}
    /\ nextToken = 1
    /\ subs = {}
    /\ now = 0
    /\ req = EmptyBag
    /\ issued = {}
    /\ activatedOk = {}
    /\ reactivated = {}

\* the record handlers of the catalog
Next ==
    \/ GetBook(NumSlots)
    \/ CreateBook(NumSlots)
    \/ DeleteBookGet(NumSlots)
    \/ UpdateBookGet(NumSlots)
    \/ \E r \in Requests : DeleteBookDelete(r)
    \/ \E r \in Requests : UpdateBookUpdate(r)
    \/ \E r \in Requests : Finish(r)

Spec == Init /\ [][Next]_vars

\* the listing handler between the inserts and deletes that change the
\* table, one request at a time
ListNext ==
    \/ GetBooks(1)
    \/ CreateBook(1)
    \/ DeleteBookGet(1)
    \/ \E r \in Requests : DeleteBookDelete(r)
    \/ \E r \in Requests : Finish(r)

ListSpec == Init /\ [][ListNext]_vars

\* the catalog already holds a book when the user handlers run
AuthInit ==
    /\ books = (1 :> [id |-> 1, title |-> S_a, author |-> S_a, year |-> 2024,
                      createdAt |-> 0, updatedAt |-> 0])
    /\ nextBookId = 2
    /\ users = << >>
    /\ nextUserId = 1
    /\ permissions = {}
    /\ tokens = {}
    /\ nextToken = 1
    /\ subs = {}
    /\ now = 0
    /\ req = EmptyBag
    /\ issued = {}
    /\ activatedOk = {}
    /\ reactivated = {}

\* registration and activation, served concurrently
AuthNext ==
    \/ registerUserInsert(NumSlots)
    \/ activateUserResolve(NumSlots)
    \/ \E r \in Requests : registerUserPermission(r)
    \/ \E r \in Requests : registerUserToken(r)
    \/ \E r \in Requests : activateUserUpdate(r)
    \/ \E r \in Requests : activateUserDelete(r)
    \/ \E r \in Requests : Finish(r)

AuthSpec == AuthInit /\ [][AuthNext]_vars

\* registration and activation with clients that drop the connection
AbortNext ==
    \/ AuthNext
    \/ \E r \in Requests : Abort(r)

AbortSpec == AuthInit /\ [][AbortNext]_vars

\* every handler that issues or resolves a token, one request at a time,
\* while the clock runs
TokenNext ==
    \/ registerUserInsert(1)
    \/ createAuthenticationToken(1)
    \/ activateUserResolve(1)
    \/ SubcribeAtBookAuth(1)
    \/ GetFavoriteBooksAuth(1)
    \/ \E r \in Requests : registerUserPermission(r)
    \/ \E r \in Requests : registerUserToken(r)
    \/ \E r \in Requests : activateUserUpdate(r)
    \/ \E r \in Requests : activateUserDelete(r)
    \/ \E r \in Requests : SubcribeAtBookGet(r)
    \/ \E r \in Requests : SubcribeAtBookInsert(r)
    \/ \E r \in Requests : GetFavoriteBooksGet(r)
    \/ \E r \in Requests : Finish(r)
    \/ Tick

TokenSpec == AuthInit /\ [][TokenNext]_vars

----------------------------------------------------------------------------
(* Properties of the record handlers (Spec) *)

\* C1: when another writer has committed an update of the record between a
\* request's read and its own write, the request's update does not succeed:
\* of two callers that read the same stored version exactly one succeeds
\* and the later write never silently overwrites the earlier one.
C1_NoSilentOverwrite ==
    \A r \in Requests :
        (r.h = "UpdateBook" /\ r.pc = "done" /\ r.raced)
            => r.resp # "ok"

\* C8: a store operation that failed because its deadline elapsed or the
\* store was unreachable is reported as a server fault, never as not-found
\* and never as success.
C8_StoreFaultIsServerError ==
    \A r \in Requests :
        (r.pc = "done" /\ r.fault) => r.resp = "serverError"

\* C10: every book in the store satisfies the ValidateBook constraints.
C10_StoredBooksValid ==
    \A i \in DOMAIN books : ValidateBook(books[i])

----------------------------------------------------------------------------
(* Properties of the listing handler (ListSpec) *)

Listed(r) ==
    /\ r.h = "GetBooks" /\ r.pc = "done" /\ r.resp = "ok"

\* C5: the TotalRecords of every listing equals the number of books that
\* matched the predicates in the snapshot the page was read from.
C5_TotalRecordsIsMatchCount ==
    \A r \in Requests :
        Listed(r) => r.meta.totalRecords = r.matched

Range(s) == {s[i] : i \in 1..Len(s)}

\* a listing of all records, read from the table as it is now
ListedAll(r) ==
    /\ Listed(r) /\ r.fresh
    /\ r.filters.title = S_empty /\ r.filters.author = S_empty

LastPageOf(n, size) == (n + size - 1) \div size

\* rows come in the order of the sort column and direction, ties by id
InSortOrder(rows, sort) ==
    LET col == IF sort[1] = "-" THEN Tail(sort) ELSE sort
        asc == sort[1] # "-"
    IN \A i \in 1..Len(rows) : \A j \in 1..Len(rows) :
        i < j =>
          LET a == books[rows[i]]
              b == books[rows[j]]
          IN \/ (IF asc THEN KeyLess(a, b, col) ELSE KeyLess(b, a, col))
             \/ (~KeyLess(a, b, col) /\ ~KeyLess(b, a, col) /\ a.id < b.id)

\* the rows a listing with the filters f can return now: one per row order
\* the ORDER BY admits
Listings(f) ==
    {GetAll(ord, f, FALSE).rows :
        ord \in OrderedResults(f.title, f.author, sortColumn(f),
                               sortDirection(f))}

\* C6: with empty predicates and unchanged data, listings are ordered by
\* the sort column and direction with ties broken by id; a second listing
\* of the same page is the same sequence, a listing of another page is
\* disjoint from it, and the pages 1..lastPage together hold every record
\* once.
C6_DeterministicPages ==
    \A r \in Requests :
        ListedAll(r) =>
            LET f == r.filters
                n == Cardinality(DOMAIN books)
                last == LastPageOf(n, f.pageSize)
                PageRows(p) == Listings([f EXCEPT !.page = p])
            IN /\ InSortOrder(r.rows, f.sort)
               /\ Cardinality(Range(r.rows)) = Len(r.rows)
               /\ Range(r.rows) \subseteq DOMAIN books
               /\ \A rows2 \in PageRows(f.page) : rows2 = r.rows
               /\ \A p \in (1..last) \ {f.page} : \A rows2 \in PageRows(p) :
                     Range(rows2) \cap Range(r.rows) = {}
               /\ \A pick \in [1..last -> UNION {PageRows(p) : p \in 1..last}] :
                     (\A p \in 1..last : pick[p] \in PageRows(p))
                        => (f.page \in 1..last =>
                              UNION {Range(pick[p]) : p \in 1..last}
                                 = DOMAIN books)

\* the first of two pages of one record each, of two books with the same
\* sort key
C6_Witness ==
    \E r \in Requests :
        /\ ListedAll(r)
        /\ r.filters.sort = Desc(C_title)
        /\ r.filters.pageSize = 1
        /\ r.filters.page = 1
        /\ DOMAIN books = {1, 2}
        /\ books[1].title = books[2].title
        /\ r.rows = <<1>>

\* C7: a sort value outside the safelist fails validation before any query:
\* GetAll is never called and no ORDER BY is built with it.
C7_UnsafeSortNeverQueried ==
    \A r \in Requests :
        r.h = "GetBooks" =>
            /\ (r.queried =>
                  /\ r.filters.sort \in SortSafelist
                  /\ r.orderBy[1] \in {C_id, C_title, C_author, C_year}
                  /\ r.orderBy[2] \in {"ASC", "DESC"})
            /\ (r.filters.sort \notin SortSafelist =>
                  /\ ~r.queried
                  /\ r.resp = "failedValidation")

C7_Witness ==
    \E r \in Requests :
        /\ r.h = "GetBooks" /\ r.pc = "done"
        /\ r.filters.sort = C_ID
        /\ ~r.queried /\ r.resp = "failedValidation"
        /\ books # << >>

----------------------------------------------------------------------------
(* Properties of token resolution (TokenSpec) *)

Scopes == {ScopeActivation, ScopeAuthentication}

IssuedAs(plain, userId, scope) ==
    [plain |-> plain, user |-> userId, scope |-> scope] \in issued

\* C2: a token resolves only under the scope it was issued with: a request
\* of a protected handler that resolved its token holds an Authentication
\* token of that user, a request of activateUserHandler an Activation one,
\* and no issued token resolves under the other scope.
C2_ScopeIsolation ==
    /\ \A r \in Requests :
        Running(r) =>
          /\ (r.h \in {"SubcribeAtBook", "GetFavoriteBooks"} =>
                IssuedAs(r.tok, r.user.id, ScopeAuthentication))
          /\ (r.h = "activateUser" =>
                IssuedAs(r.tok, r.user.id, ScopeActivation))
    /\ \A i \in issued : \A sc \in Scopes \ {i.scope} :
        GetByToken(sc, i.plain, FALSE).err = ErrRecordNotFound

\* an Activation token that still resolves under its own scope has just
\* been refused by a protected handler
C2_Witness ==
    \E r \in Requests : \E i \in issued :
        /\ r.h = "SubcribeAtBook" /\ r.pc = "done"
        /\ r.tok = i.plain /\ r.reason = "wrongScope"
        /\ r.resp = "invalidAuthenticationToken"
        /\ i.scope = ScopeActivation
        /\ GetByToken(ScopeActivation, i.plain, FALSE).err = NoErr
        /\ \E j \in issued : /\ j.scope = ScopeAuthentication
                             /\ GetByToken(ScopeAuthentication, j.plain,
                                           FALSE).err = NoErr

Reasons == {"wrongScope", "expired", "unknownHash"}

\* what the handler answers when the token does not resolve
RefusalOf(h) ==
    IF h = "activateUser" THEN "failedValidation"
    ELSE "invalidAuthenticationToken"

\* C4: a presented token that fails to resolve gives the same error value
\* and the same response whether its scope is wrong, it is expired or its
\* hash is unknown: any two tokens that fail under a scope fail with the
\* same error, and every refused request carries ErrRecordNotFound and the
\* handler's one refusal response.
C4_RefusalsIndistinguishable ==
    /\ \A sc \in Scopes :
        LET failed == {g \in {GetByToken(sc, p, FALSE) : p \in TokenInputs} :
                         g.err # NoErr}
        IN \A g1 \in failed : \A g2 \in failed :
              /\ g1 = g2
              /\ g1.err = ErrRecordNotFound
              /\ ActivateErrResponse(g1.err) = ActivateErrResponse(g2.err)
              /\ AuthErrResponse(g1.err) = AuthErrResponse(g2.err)
    /\ \A r \in Requests :
        r.reason \in Reasons =>
            /\ r.err = ErrRecordNotFound
            /\ r.resp = RefusalOf(r.h)

\* the three reasons occur together under the Authentication scope, and a
\* request has been refused for an expired token
C4_Witness ==
    /\ {FailReason(ScopeAuthentication, p) :
          p \in {q \in TokenInputs :
                   GetByToken(ScopeAuthentication, q, FALSE).err # NoErr}}
         = Reasons
    /\ \E r \in Requests :
        /\ r.h = "GetFavoriteBooks" /\ r.pc = "done"
        /\ r.reason = "expired"

----------------------------------------------------------------------------
(* Properties of registration and activation (AuthSpec) *)

\* C3 as amended: once activateUserHandler has completed for a user, none
\* of the Activation tokens issued to that user resolves any more.
C3_ActivationTokensGone ==
    \A u \in activatedOk : \A i \in issued :
        (i.user = u /\ i.scope = ScopeActivation) =>
            GetByToken(ScopeActivation, i.plain, FALSE).err = ErrRecordNotFound

\* after a completed activation the same token is presented again and is
\* refused
C3_Witness ==
    \E r \in Requests : \E i \in issued :
        /\ i.user \in activatedOk /\ i.scope = ScopeActivation
        /\ r.h = "activateUser" /\ r.pc = "done"
        /\ r.tok = i.plain /\ r.reason = "unknownHash"
        /\ users[i.user].activated

\* C3 as stated: after activateUserHandler has completed for a user, no
\* activation with one of that user's tokens succeeds again.
C3_NeverActivatesTwice == reactivated = {}

\* C9: a request aborted while its handler was running leaves none of its
\* writes in the store: no partial state (a user row without its
\* permission and token, an activated user whose tokens remain) and no
\* complete one either.
C9_NoPartialState ==
    \A r \in Requests :
        (r.pc = "done" /\ r.aborted) => r.wrote = 0

====
